---- MODULE Spec2Model ----
(***************************************************************************)
(* Model of app/components/layout/breadcrumbs/breadcrumb.tsx:              *)
(*   - DynamicDropdown: the filter dropdown whose selection lives in the   *)
(*     URL query string and whose item list is refreshed by a fetcher.     *)
(*   - Breadcrumb: the pure rendering of one breadcrumb label.             *)
(***************************************************************************)
EXTENDS Naturals, Sequences, FiniteSets

(***************************************************************************)
(* Bounds and inputs                                                       *)
(***************************************************************************)
\* Longest query string (number of name=value entries) the model explores.
MaxParams == 3
\* Total counts the loader reports: at and above the hint's threshold.
TotalCounts == {4, 5}

\* model.name / model.key props and one unrelated query parameter name.
ModelName == "category"
ModelKey == "name"
OtherName == "tag"

\* Values a user can put in the search box.
SearchTexts == {"", "x", "xy"}

\* The literal of `totalItems > 4`.
HintThreshold == 4

Entry(n, v) == [name |-> n, value |-> v]
Item(i, n) == [id |-> i, name |-> n]

AllItems == <<Item("i1", "Chairs"), Item("i2", "Desks")>>

\* initialData[initialDataKey]: possibly missing, otherwise a list no longer
\* than the total count.
InitialDatas ==
  { [present |-> FALSE, list |-> <<>>, count |-> n] : n \in TotalCounts }
  \cup
  { d \in [present : {TRUE},
           list : {SubSeq(AllItems, 1, k) : k \in 1..Len(AllItems)},
           count : TotalCounts] : Len(d.list) <= d.count }

\* Query strings the page can be opened with (no duplicate selection).
InitialQueries ==
  { <<>>,
    <<Entry(ModelName, "i1"), Entry(OtherName, "t1")>>,
    <<Entry(ModelName, "i2"), Entry(ModelName, "i1")>> }

\* What the search endpoint may answer for a query value.
SearchResults(q) ==
  IF q = "x" THEN {AllItems, <<Item("i1", "Chairs")>>}
             ELSE {<<>>}

(***************************************************************************)
(* URLSearchParams                                                         *)
(***************************************************************************)
GetAll(sp, name) ==
  LET f == SelectSeq(sp, LAMBDA e : e.name = name)
  IN  [i \in 1..Len(f) |-> f[i].value]

URLAppend(sp, name, value) == Append(sp, Entry(name, value))

URLDeleteValue(sp, name, value) ==
  SelectSeq(sp, LAMBDA e : ~(e.name = name /\ e.value = value))

URLDelete(sp, name) == SelectSeq(sp, LAMBDA e : e.name # name)

Includes(list, v) == \E i \in 1..Len(list) : list[i] = v

(***************************************************************************)
(* DynamicDropdown state                                                   *)
(***************************************************************************)
VARIABLES
  initialData,   \* useLoaderData(): [present, list, count]
  showSearch,    \* prop
  searchQuery,   \* useState("")
  searchParams,  \* the URLSearchParams object the updaters mutate
  itemInParams,  \* searchParams.getAll(model.name) as read by the last render
  fetcher,       \* [state, data]
  inflight,      \* requests of this fetcher still awaited
  match,         \* Breadcrumb prop
  isLastItem,    \* Breadcrumb prop
  out            \* what Breadcrumb returned

vars == <<initialData, showSearch, searchQuery, searchParams, itemInParams,
          fetcher, inflight, match, isLastItem, out>>

NoData == [present |-> FALSE, queryValue |-> "", items |-> <<>>]
Data(q, l) == [present |-> TRUE, queryValue |-> q, items |-> l]

totalItems == initialData.count

items ==
  IF fetcher.data.present THEN fetcher.data.items
  ELSE IF initialData.present THEN initialData.list ELSE <<>>

ShowClearFilter == Len(itemInParams) > 0
ShowBadge == Len(itemInParams) > 0
ShowHint == totalItems > HintThreshold
ClearButtonRendered == showSearch /\ searchQuery # ""
ClearButtonDisabled == searchQuery # ""

(***************************************************************************)
(* DynamicDropdown handlers                                                *)
(***************************************************************************)
\* Variant: delete called without the value argument.
ToggledParams_DeleteByName(prev, snapshot, value) ==
  IF Includes(snapshot, value)
    THEN URLDelete(prev, ModelName)
    ELSE URLAppend(prev, ModelName, value)

\* The updater handleSelectItemChange hands to setSearchParams: `snapshot` is
\* the itemInParams the callback closed over, `prev` the object it mutates.
ToggledParams(prev, snapshot, value) ==
  IF Includes(snapshot, value)
    THEN URLDeleteValue(prev, ModelName, value)
    ELSE URLAppend(prev, ModelName, value)

\* onChange of the checkbox of a displayed item.
handleSelectItemChange(value) ==
  /\ \E i \in 1..Len(items) : items[i].id = value
  /\ Len(ToggledParams(searchParams, itemInParams, value)) <= MaxParams
  /\ searchParams' = ToggledParams(searchParams, itemInParams, value)
  /\ UNCHANGED <<initialData, showSearch, searchQuery, itemInParams, fetcher,
                 inflight, match, isLastItem, out>>

\* Variant: only the first selected value is deleted.
ClearedParams_FirstOnly(prev) ==
  IF GetAll(prev, ModelName) = <<>> THEN prev
  ELSE URLDeleteValue(prev, ModelName, GetAll(prev, ModelName)[1])

\* The updater of the "Clear filter" button.
ClearedParams(prev) == URLDelete(prev, ModelName)

ClearFilterClick ==
  /\ ShowClearFilter
  /\ searchParams' = ClearedParams(searchParams)
  /\ UNCHANGED <<initialData, showSearch, searchQuery, itemInParams, fetcher,
                 inflight, match, isLastItem, out>>

\* The navigation started by setSearchParams lands: the component renders
\* again and reads searchParams.getAll(model.name) anew.
Rerender ==
  /\ itemInParams # GetAll(searchParams, ModelName)
  /\ itemInParams' = GetAll(searchParams, ModelName)
  /\ UNCHANGED <<initialData, showSearch, searchQuery, searchParams, fetcher,
                 inflight, match, isLastItem, out>>

\* Variant: the request leaves the selection out.
SearchRequest_NoSelection(value, selected) ==
  [method |-> "GET", action |-> "/api/model-filters", model |-> ModelName,
   queryKey |-> ModelKey, queryValue |-> value, selectedValues |-> <<>>]

\* The body of fetcher.submit in the search box's onChange.
SearchRequest(value, selected) ==
  [method |-> "GET", action |-> "/api/model-filters", model |-> ModelName,
   queryKey |-> ModelKey, queryValue |-> value, selectedValues |-> selected]

\* Variant: a submit leaves the pending request running.
FetcherSubmit_NoAbort(pending, req) == pending \cup {req}

\* fetcher.submit: a fetcher awaits one request; a submit while it is loading
\* aborts the pending one.
FetcherSubmit(pending, req) == {req}

\* onChange of the search box.
SearchInputChange(value) ==
  /\ showSearch
  /\ value # searchQuery
  /\ searchQuery' = value
  /\ IF value # ""
       THEN /\ inflight' = FetcherSubmit(inflight, SearchRequest(value, itemInParams))
            /\ fetcher' = [fetcher EXCEPT !.state = "loading"]
       ELSE UNCHANGED <<fetcher, inflight>>
  /\ UNCHANGED <<initialData, showSearch, searchParams, itemInParams, match,
                 isLastItem, out>>

\* A response of the search endpoint lands.
FetcherResponse ==
  \E req \in inflight : \E l \in SearchResults(req.queryValue) :
    /\ inflight' = inflight \ {req}
    /\ fetcher' = [state |-> IF inflight' = {} THEN "idle" ELSE "loading",
                   data |-> Data(req.queryValue, l)]
    /\ UNCHANGED <<initialData, showSearch, searchQuery, searchParams,
                   itemInParams, match, isLastItem, out>>

\* resetFetcher(fetcher): back to the idle, data-less fetcher.
resetFetcher == [state |-> "idle", data |-> NoData]

\* A click on the clear (x) button; a disabled button ignores it.
ClearButtonClick ==
  /\ ClearButtonRendered
  /\ IF ClearButtonDisabled
       THEN UNCHANGED <<fetcher, inflight, searchQuery>>
       ELSE /\ fetcher' = resetFetcher
            /\ inflight' = {}
            /\ searchQuery' = ""
  /\ UNCHANGED <<initialData, showSearch, searchParams, itemInParams, match,
                 isLastItem, out>>

(***************************************************************************)
(* Breadcrumb                                                              *)
(***************************************************************************)
\* JavaScript values: typeof and payload.
JSString(str) == [type |-> "string", value |-> str]
Undefined == [type |-> "undefined", value |-> ""]
Node == [type |-> "object", value |-> "<Link>"]

Truthy(v) == IF v.type = "string" THEN v.value # "" ELSE v.type = "object"

\* What a handle's breadcrumb function may return, and asset titles.
BreadcrumbValues ==
  {JSString("single"), JSString("Assets"), JSString(""), Node, Undefined}
Titles == {Undefined, JSString(""), JSString("Widget"), JSString("single")}

\* handle: "undefined", "plain" (an object without a breadcrumb member) or
\* "breadcrumb" (its function returns `returns`); data: "undefined", "noasset"
\* or "asset" (whose title is `title`).
NoMatch ==
  [present |-> FALSE, handle |-> "undefined", returns |-> Undefined,
   data |-> "undefined", title |-> Undefined]
Matches ==
  {NoMatch}
  \cup [present : {TRUE}, handle : {"undefined", "plain"}, returns : {Undefined},
        data : {"undefined", "noasset"}, title : {Undefined}]
  \cup [present : {TRUE}, handle : {"undefined", "plain"}, returns : {Undefined},
        data : {"asset"}, title : Titles]
  \cup [present : {TRUE}, handle : {"breadcrumb"}, returns : BreadcrumbValues,
        data : {"undefined", "noasset"}, title : {Undefined}]
  \cup [present : {TRUE}, handle : {"breadcrumb"}, returns : BreadcrumbValues,
        data : {"asset"}, title : Titles]

\* match?.handle?.breadcrumb(match): [threw, value]. Calling the missing
\* member of a handle throws a TypeError.
CallBreadcrumb(m) ==
  IF ~m.present \/ m.handle = "undefined"
    THEN [threw |-> FALSE, value |-> Undefined]
  ELSE IF m.handle = "plain"
    THEN [threw |-> TRUE, value |-> Undefined]
  ELSE [threw |-> FALSE, value |-> m.returns]

\* match?.data?.asset?.title
AssetTitle(m) ==
  IF m.present /\ m.data = "asset" THEN m.title ELSE Undefined

\* Variant: no fallback.
SingleTitle_NoFallback(m) == AssetTitle(m)

\* match?.data?.asset?.title || "Not found"
SingleTitle(m) ==
  IF Truthy(AssetTitle(m)) THEN AssetTitle(m) ELSE JSString("Not found")

NotRun == [phase |-> "pending", rendered |-> FALSE, label |-> Undefined,
           separator |-> FALSE]
Threw == [phase |-> "threw", rendered |-> FALSE, label |-> Undefined,
          separator |-> FALSE]
Nothing == [phase |-> "done", rendered |-> FALSE, label |-> Undefined,
            separator |-> FALSE]

Breadcrumb(m, last) ==
  LET call == CallBreadcrumb(m)
      breadcrumb ==
        IF call.value.type = "string" /\ call.value.value = "single"
          THEN SingleTitle(m)
          ELSE call.value
  IN  IF call.threw THEN Threw
      ELSE IF Truthy(breadcrumb)
        THEN [phase |-> "done", rendered |-> TRUE, label |-> breadcrumb,
              separator |-> ~last]
        ELSE Nothing

\* The breadcrumb chain renders this match.
RenderBreadcrumb ==
  /\ out = NotRun
  /\ out' = Breadcrumb(match, isLastItem)
  /\ UNCHANGED <<match, isLastItem, initialData, showSearch, searchQuery,
                 searchParams, itemInParams, fetcher, inflight>>

\* A navigation hands the component another match.
Navigate ==
  /\ out # NotRun
  /\ match' \in Matches
  /\ isLastItem' \in BOOLEAN
  /\ out' = NotRun
  /\ UNCHANGED <<initialData, showSearch, searchQuery, searchParams,
                 itemInParams, fetcher, inflight>>

(***************************************************************************)
(* Specifications                                                          *)
(***************************************************************************)
DropdownInit ==
  /\ initialData \in InitialDatas
  /\ showSearch \in BOOLEAN
  /\ searchQuery = ""
  /\ searchParams \in InitialQueries
  /\ itemInParams = GetAll(searchParams, ModelName)
  /\ fetcher = [state |-> "idle", data |-> NoData]
  /\ inflight = {}

\* DynamicDropdown on a page; no breadcrumb is being rendered.
Init ==
  /\ DropdownInit
  /\ match = NoMatch
  /\ isLastItem = TRUE
  /\ out = NotRun

Next ==
  \/ \E value \in {"i1", "i2"} : handleSelectItemChange(value)
  \/ ClearFilterClick
  \/ Rerender
  \/ \E value \in SearchTexts : SearchInputChange(value)
  \/ FetcherResponse
  \/ ClearButtonClick

Spec == Init /\ [][Next]_vars

\* Breadcrumb alone, on any match.
BreadcrumbInit ==
  /\ initialData = [present |-> FALSE, list |-> <<>>, count |-> 0]
  /\ showSearch = TRUE
  /\ searchQuery = ""
  /\ searchParams = <<>>
  /\ itemInParams = <<>>
  /\ fetcher = [state |-> "idle", data |-> NoData]
  /\ inflight = {}
  /\ match \in Matches
  /\ isLastItem \in BOOLEAN
  /\ out = NotRun

BreadcrumbNext == RenderBreadcrumb \/ Navigate

BreadcrumbSpec == BreadcrumbInit /\ [][BreadcrumbNext]_vars

(***************************************************************************)
(* Properties                                                              *)
(***************************************************************************)
Selection == GetAll(searchParams, ModelName)
Rendered == itemInParams = Selection
InitialItems == IF initialData.present THEN initialData.list ELSE <<>>
NoDuplicates(list) ==
  \A i, j \in 1..Len(list) : list[i] = list[j] => i = j

\* C1: a checkbox toggle of an id the rendered list lacks appends that id
\* once at the end of the query string; a toggle of an id the rendered list
\* has removes that id; every other entry keeps its place; and from a
\* rendered state, toggling an absent id and toggling it again on the
\* re-rendered list gives back the original query string.
C1_ToggleAppendsThenRemoves ==
  [][\A value \in {"i1", "i2"} : handleSelectItemChange(value) =>
       /\ URLDeleteValue(searchParams', ModelName, value)
            = URLDeleteValue(searchParams, ModelName, value)
       /\ ~Includes(itemInParams, value) =>
            /\ Len(searchParams') = Len(searchParams) + 1
            /\ SubSeq(searchParams', 1, Len(searchParams)) = searchParams
            /\ searchParams'[Len(searchParams')] = Entry(ModelName, value)
       /\ Includes(itemInParams, value) =>
            ~Includes(GetAll(searchParams', ModelName), value)
       /\ (Rendered /\ ~Includes(Selection, value)) =>
            ToggledParams(searchParams', GetAll(searchParams', ModelName), value)
              = searchParams
  ]_vars

\* C1 witness: "i2" was just appended behind a selected "i1".
C1_Witness ==
  /\ itemInParams = <<"i1">>
  /\ Selection = <<"i1", "i2">>

\* C2: whenever the search box is empty, the displayed items are the initial
\* list and the fetcher is idle without data or pending request.
C2_EmptyBoxShowsInitialList ==
  searchQuery = "" =>
    /\ items = InitialItems
    /\ fetcher = [state |-> "idle", data |-> NoData]
    /\ inflight = {}

\* C3: a change of the search box to a non-empty value puts exactly one new
\* request in flight, a GET to the search endpoint carrying the model name,
\* the search key, the typed value and the selection list the component
\* holds at that keystroke; a change to the empty value issues none.
C3_OneRequestPerKeystroke ==
  [][\A value \in SearchTexts : SearchInputChange(value) =>
       IF searchQuery' # ""
         THEN \E r \in inflight' :
                /\ inflight' \ inflight \subseteq {r}
                /\ r.method = "GET"
                /\ r.action = "/api/model-filters"
                /\ r.model = ModelName
                /\ r.queryKey = ModelKey
                /\ r.queryValue = searchQuery'
                /\ r.selectedValues = itemInParams
                /\ fetcher'.state = "loading"
         ELSE inflight' = inflight /\ fetcher' = fetcher
  ]_vars

\* C3 witness: a request for the typed text with a non-empty selection is
\* in flight.
C3_Witness ==
  \E r \in inflight :
    /\ searchQuery # ""
    /\ r.queryValue = searchQuery
    /\ r.selectedValues = <<"i2", "i1">>

\* C4: on a rendered view the Clear filter action and the count badge are
\* shown exactly when the query string has a value for the model's name; a
\* click is possible only when the action is shown, removes every value of
\* that name and leaves the other parameters alone, so that the next render
\* shows neither the action nor the badge.
C4_ClearFilter ==
  /\ [](Rendered =>
         /\ ShowClearFilter <=> Len(Selection) > 0
         /\ ShowBadge <=> Len(Selection) > 0)
  /\ [][ClearFilterClick =>
         /\ ShowClearFilter
         /\ GetAll(searchParams', ModelName) = <<>>
         /\ searchParams' = SelectSeq(searchParams, LAMBDA e : e.name = OtherName)
      ]_vars

\* C4 witness: two selected values are gone at once, before the re-render.
C4_Witness ==
  /\ Len(itemInParams) = 2
  /\ searchParams = <<>>

\* C5: the hint is shown exactly when the total count exceeds the number of
\* displayed items.
C5_HintTracksDisplayedCount ==
  ShowHint <=> totalItems > Len(items)

\* C6: a match without a breadcrumb function renders nothing and raises no
\* error.
C6_NoCapabilityRendersNothing ==
  (out # NotRun /\ (~match.present \/ match.handle # "breadcrumb")) =>
    out = Nothing

\* C7 (as stated): for a breadcrumb function returning "single" the label is
\* the non-empty asset title, else "Not found", and is never the string
\* "single"; another non-empty value is rendered unchanged.
C7_SingleNeverRendered ==
  (out.phase = "done" /\ match.present /\ match.handle = "breadcrumb") =>
    IF match.returns = JSString("single")
      THEN /\ out.rendered
           /\ out.label =
                (IF AssetTitle(match).type = "string" /\ AssetTitle(match).value # ""
                   THEN AssetTitle(match) ELSE JSString("Not found"))
           /\ out.label # JSString("single")
      ELSE IF match.returns \in {JSString("Assets"), Node}
        THEN out.rendered /\ out.label = match.returns
        ELSE ~out.rendered

\* C7 (amended): as above, except that the label is "single" exactly when
\* the asset's own title is "single".
C7_SingleSubstitution ==
  (out.phase = "done" /\ match.present /\ match.handle = "breadcrumb") =>
    IF match.returns = JSString("single")
      THEN /\ out.rendered
           /\ out.label =
                (IF AssetTitle(match).type = "string" /\ AssetTitle(match).value # ""
                   THEN AssetTitle(match) ELSE JSString("Not found"))
           /\ out.label = JSString("single") <=> AssetTitle(match) = JSString("single")
      ELSE IF match.returns \in {JSString("Assets"), Node}
        THEN out.rendered /\ out.label = match.returns
        ELSE ~out.rendered

\* C7 witness: "single" was replaced by the fallback for an asset without a
\* usable title.
C7_Witness ==
  /\ match.returns = JSString("single")
  /\ match.data = "asset"
  /\ out.rendered
  /\ out.label = JSString("Not found")

C9_NoDuplicateIds == NoDuplicates(Selection)

\* C10: whenever the search query is non-empty, the clear button is rendered
\* and enabled.
C10_ClearButtonUsable ==
  searchQuery # "" => (ClearButtonRendered /\ ~ClearButtonDisabled)

====
